---- MODULE Spec2Model ----
(***************************************************************************)
(* A model of the e-Class content extractor (app/services/eclass_parser.py) *)
(* of AutoLMS.  Every parse_* method of EclassParser is an operator that    *)
(* maps a document to the value the method returns, together with the      *)
(* exception (if any) that leaves it.  A document is the part of the HTML   *)
(* tree the method looks at: the elements its selectors find and the        *)
(* attributes and texts it reads from them.  Python strings whose           *)
(* characters the code inspects (course names, URL parameter values) are    *)
(* sequences of one-character strings; a URL is a sequence of parts.        *)
(***************************************************************************)
EXTENDS Integers, Sequences, FiniteSets, TLC

VARIABLES
    phase,   \* "idle": no call in progress; "returned": a call has ended
    op,      \* the method that was called last
    arg,     \* the document (and further arguments) it was called with
    ret,     \* exc: the exception that left the call; list, map: the value
             \* returned, a list or a dict according to the method
    posts,   \* the POST requests the call issued through the session, in order
    table_notices, \* the rows of the notices table, in the order of their id
    answer,  \* exc, val: what the last existence check raised or returned
    response,\* status, calls: the answer of the last course endpoint request
             \* and the calls it made on the e-Class service, in order
    crawl,   \* the crawl orchestrator and its portal session
    runs     \* two crawl runs over one course that share the notices table

vars == <<phase, op, arg, ret, posts, table_notices, answer, response, crawl, runs>>

\* What the content extractor neither reads nor writes.
others == <<table_notices, answer, response, crawl, runs>>

(***************************************************************************)
(* Bounds of the model.                                                     *)
(***************************************************************************)
MaxNameLen == 5     \* characters in a course's "name (code)" text
MaxRows == 3        \* rows of a list page
MaxMenuItems == 2   \* menu items of a course page
MaxSections == 2    \* section headers of a syllabus page
MaxWeekRows == 2    \* rows of a syllabus table below its header row
MaxAnchors == 2     \* anchors of an attachment listing

(***************************************************************************)
(* Python values.                                                           *)
(***************************************************************************)
NoExc == "no exception"
Ok(v) == [exc |-> NoExc, val |-> v]
Raise(e) == [exc |-> e, val |-> <<>>]

\* None, where the code holds an Optional[str]: no character of it is a digit.
None == <<"None">>

\* The dict with no key.
EmptyDict == [k \in {} |-> <<>>]

Digits == {"0", "1", "2", "3", "4", "5", "6", "7", "8", "9"}

AllDigits(s) == Len(s) > 0 /\ \A i \in 1..Len(s) : s[i] \in Digits

RECURSIVE Reverse(_)
Reverse(s) == IF s = <<>> THEN <<>> ELSE Reverse(Tail(s)) \o <<Head(s)>>

RECURSIVE SeqsUpTo(_, _)
SeqsUpTo(S, n) ==
    IF n = 0 THEN {<<>>}
    ELSE LET shorter == SeqsUpTo(S, n - 1)
         IN  shorter \cup {Append(s, x) : s \in {t \in shorter : Len(t) = n - 1}, x \in S}

\* try: body / except Exception: return default
Catch(r, default) == IF r.exc # NoExc THEN Ok(default) ELSE r

\* BeautifulSoup(html, 'html.parser'): markup that is not text (None) raises.
Soup(doc) == IF doc.valid THEN Ok(doc) ELSE Raise("TypeError")

(***************************************************************************)
(* parse_courses and _parse_course_element.                                 *)
(***************************************************************************)
Whitespace == {" "}

RECURSIVE LStrip(_, _)
LStrip(s, cs) == IF s # <<>> /\ Head(s) \in cs THEN LStrip(Tail(s), cs) ELSE s

\* str.strip(chars): the characters of cs removed from both ends.
Strip(s, cs) == Reverse(LStrip(Reverse(LStrip(s, cs)), cs))

\* The position of the last c in s, 0 when there is none.
LastIndexOf(s, c) ==
    LET at == {i \in 1..Len(s) : s[i] = c}
    IN  IF at = {} THEN 0 ELSE CHOOSE i \in at : \A j \in at : j <= i

\* The position of the first c in s, 0 when there is none.
FirstIndexOf(s, c) ==
    LET at == {i \in 1..Len(s) : s[i] = c}
    IN  IF at = {} THEN 0 ELSE CHOOSE i \in at : \A j \in at : i <= j

\* str.rsplit(c, 1)
RSplit1(s, c) ==
    LET i == LastIndexOf(s, c)
    IN  IF i = 0 THEN <<s>> ELSE <<SubSeq(s, 1, i - 1), SubSeq(s, i + 1, Len(s))>>

\* str.split(c, 1)
Split1(s, c) ==
    LET i == FirstIndexOf(s, c)
    IN  IF i = 0 THEN <<s>> ELSE <<SubSeq(s, 1, i - 1), SubSeq(s, i + 1, Len(s))>>

\* full_name.rsplit('(', 1), mutated to split at the first parenthesis.
name_parts_first(full_name) == Split1(full_name, "(")

name_parts(full_name) == RSplit1(full_name, "(")

\* The record of one course element; None when it has no em.sub_open.
NoCourse == [id |-> "", name |-> None, code |-> None, time |-> ""]

_parse_course_element(element) ==
    IF ~element.em THEN NoCourse
    ELSE LET full_name == Strip(element.text, Whitespace)
             parts == name_parts(full_name)
         IN  [id |-> element.kj,
              name |-> Strip(parts[1], Whitespace),
              code |-> IF Len(parts) > 1 THEN Strip(parts[2], {")", " "}) ELSE <<>>,
              time |-> IF element.span THEN "Mon 1-3" ELSE ""]

RECURSIVE course_list(_)
course_list(elements) ==
    IF elements = <<>> THEN <<>>
    ELSE LET c == _parse_course_element(Head(elements))
         IN  (IF c # NoCourse THEN <<c>> ELSE <<>>) \o course_list(Tail(elements))

parse_courses_body(doc) ==
    LET soup == Soup(doc)
    IN  IF soup.exc # NoExc THEN soup ELSE Ok(course_list(doc.elements))

parse_courses(doc) == Catch(parse_courses_body(doc), <<>>)

(***************************************************************************)
(* Inputs of parse_courses.                                                 *)
(***************************************************************************)
NameChars == {"A", "(", ")", " "}

CourseTexts == SeqsUpTo(NameChars, MaxNameLen)

CourseElements ==
    {[em |-> TRUE, kj |-> "K1", text |-> t, span |-> TRUE] : t \in CourseTexts}
    \cup {[em |-> FALSE, kj |-> "K1", text |-> <<"A">>, span |-> s] : s \in BOOLEAN}
    \cup {[em |-> TRUE, kj |-> "K2", text |-> <<"A", " ", "(", "A", ")">>, span |-> FALSE]}

CourseDocs ==
    {[valid |-> FALSE, elements |-> <<>>], [valid |-> TRUE, elements |-> <<>>]}
    \cup {[valid |-> TRUE, elements |-> <<e>>] : e \in CourseElements}
    \cup {[valid |-> TRUE, elements |-> <<e, f>>] :
            e \in {x \in CourseElements : Len(x.text) <= 1},
            f \in {x \in CourseElements : Len(x.text) <= 1}}

(***************************************************************************)
(* parse_course_menus and _get_specific_menus.                              *)
(***************************************************************************)
menu_mapping ==
    [st_plan |-> "plan",
     st_onlineclass |-> "online_lecture",
     st_notice |-> "notice",
     st_lecture_material |-> "lecture_material",
     st_attendance |-> "attendance",
     st_report |-> "assignment",
     st_teamproject |-> "team_project",
     st_exam |-> "exam"]

\* d[k] = v
Put(d, k, v) == [x \in DOMAIN d \cup {k} |-> IF x = k THEN v ELSE d[x]]

\* menu_mapping[menu_id], mutated to fall back to the id itself.
menu_key_any(menu_id) ==
    IF menu_id \in DOMAIN menu_mapping THEN menu_mapping[menu_id] ELSE menu_id

\* The key an item is stored under; the item is passed over when there is none.
menu_key(menu_id) ==
    IF menu_id \in DOMAIN menu_mapping THEN menu_mapping[menu_id] ELSE ""

\* The loop over menu_items; link['href'] raises KeyError on an anchor without href.
RECURSIVE menus_loop(_, _)
menus_loop(items, menus) ==
    IF items = <<>> THEN Ok(menus)
    ELSE LET item == Head(items)
         IN  IF menu_key(item.id) # ""
             THEN IF item.link # "none"
                  THEN IF item.link = "nohref" THEN Raise("KeyError")
                       ELSE menus_loop(Tail(items),
                                Put(menus, menu_key(item.id),
                                    [name |-> item.name, url |-> item.href]))
                  ELSE menus_loop(Tail(items), menus)
             ELSE menus_loop(Tail(items), menus)

_get_specific_menus(soup) == menus_loop(soup.items, EmptyDict)

parse_course_menus_body(doc) ==
    LET soup == Soup(doc)
    IN  IF soup.exc # NoExc THEN soup ELSE _get_specific_menus(doc)

\* parse_course_menus without its try/except.
parse_course_menus_notry(doc) == parse_course_menus_body(doc)

parse_course_menus(doc) == Catch(parse_course_menus_body(doc), EmptyDict)

(***************************************************************************)
(* Inputs of parse_course_menus.                                            *)
(***************************************************************************)
MenuLinks ==
    {[link |-> "none", href |-> ""], [link |-> "nohref", href |-> ""],
     [link |-> "a", href |-> "/ilos/a.acl"], [link |-> "a", href |-> "/ilos/b.acl"]}

MenuItemsOver(ids) ==
    {[id |-> i, link |-> l.link, href |-> l.href, name |-> "menu"] :
        i \in ids, l \in MenuLinks}

\* "": an item without id; the others: ids the mapping does not know.
UnknownMenuIds == {"", "st_other", "notice"}

MenuDocs ==
    {[valid |-> FALSE, items |-> <<>>]}
    \cup {[valid |-> TRUE, items |-> <<i>>] :
            i \in MenuItemsOver(DOMAIN menu_mapping \cup UnknownMenuIds)}
    \cup {[valid |-> TRUE, items |-> s] :
            s \in SeqsUpTo(MenuItemsOver({"st_notice", "st_report", "st_other"}),
                           MaxMenuItems)}

(***************************************************************************)
(* The navigation attribute of a list row.  An onclick value is a call      *)
(* call(q url q tail with q the quote around the first argument; a URL is a *)
(* part with its text and the values of its ARTL_NUM and NORCT_NUM query    *)
(* parameters (Absent: the parameter is not in the URL).                    *)
(***************************************************************************)
Absent == <<"absent">>

BaseUrl == "https://eclass.seoultech.ac.kr"

BasePart == [text |-> BaseUrl, ARTL_NUM |-> Absent, NORCT_NUM |-> Absent]

RelText == "/ilos/st/course/view_form.acl"

AbsText == "https://eclass.seoultech.ac.kr/ilos/st/course/view_form.acl"

StartsWithHttp(part) == part.text \in {AbsText, BaseUrl}

NoUrlPart == [text |-> "", ARTL_NUM |-> Absent, NORCT_NUM |-> Absent]

\* The attribute is absent: get('onclick', '') gives ''.
NoOnclick == [call |-> "", quote |-> "", tail |-> "", url |-> NoUrlPart]

\* The longest prefix of s made of digits.
RECURSIVE DigitPrefix(_)
DigitPrefix(s) ==
    IF s # <<>> /\ Head(s) \in Digits THEN <<Head(s)>> \o DigitPrefix(Tail(s)) ELSE <<>>

\* The first run of digits in s: re.search(r'\d+', s)
RECURSIVE FirstDigitRun(_)
FirstDigitRun(s) ==
    IF s = <<>> THEN <<>>
    ELSE IF Head(s) \in Digits THEN DigitPrefix(s) ELSE FirstDigitRun(Tail(s))

NoMatch == [matched |-> FALSE, group |-> <<>>]

\* re.search(param + r'=(\d+)', url) on a URL of parts
RECURSIVE ParamDigits(_, _)
ParamDigits(url, param) ==
    IF url = <<>> THEN NoMatch
    ELSE LET v == Head(url)[param]
         IN  IF v # Absent /\ DigitPrefix(v) # <<>>
             THEN [matched |-> TRUE, group |-> DigitPrefix(v)]
             ELSE ParamDigits(Tail(url), param)

\* re.search(r"pageMove\('([^']+)'\)", onclick)
PageMoveClosed(onclick) ==
    IF onclick.call = "pageMove" /\ onclick.quote = "'" /\ onclick.tail = ")"
    THEN [matched |-> TRUE, group |-> <<onclick.url>>]
    ELSE NoMatch

\* re.search(r"pageMove\('([^']+)'(?:,\s*event)?", onclick)
PageMoveEvent(onclick) ==
    IF onclick.call = "pageMove" /\ onclick.quote = "'"
    THEN [matched |-> TRUE, group |-> <<onclick.url>>]
    ELSE NoMatch

(***************************************************************************)
(* parse_notice_list.  A row is a tr with style "cursor: pointer;":         *)
(* left: it has a td.left; onclick: that cell's attribute; ncols: its td    *)
(* count; bottom: the div.subjt_bottom of its third cell and the texts of   *)
(* the spans in it; number: the text of its first cell.                     *)
(***************************************************************************)
DigitValue ==
    [d \in Digits |->
        CASE d = "0" -> 0 [] d = "1" -> 1 [] d = "2" -> 2 [] d = "3" -> 3 [] d = "4" -> 4
          [] d = "5" -> 5 [] d = "6" -> 6 [] d = "7" -> 7 [] d = "8" -> 8 [] d = "9" -> 9]

\* int(s) of a string of digits
RECURSIVE IntOf(_)
IntOf(s) == IF s = <<>> THEN 0 ELSE 10 * IntOf(SubSeq(s, 1, Len(s) - 1)) + DigitValue[s[Len(s)]]

\* The author and the view count read from the bottom block of the title cell.
notice_author(bottom) ==
    IF bottom.div /\ bottom.spans # <<>> THEN bottom.spans[1] ELSE <<>>

notice_views(bottom) ==
    IF bottom.div /\ Len(bottom.spans) > 1
    THEN FirstDigitRun(bottom.spans[Len(bottom.spans)])
    ELSE <<>>

\* The body of the per-row try block: the notices it appends, or the exception.
notice_row(row) ==
    IF ~row.left THEN Raise("AttributeError")
    ELSE LET onclick == row.onclick
             url_match == IF onclick # NoOnclick THEN PageMoveClosed(onclick) ELSE NoMatch
             artl_match == IF url_match.matched
                           THEN ParamDigits(url_match.group, "ARTL_NUM")
                           ELSE NoMatch
             article_id == IF artl_match.matched THEN artl_match.group ELSE None
             detail_url == IF artl_match.matched THEN <<BasePart>> \o url_match.group
                           ELSE url_match.group
             views == notice_views(row.bottom)
         IN  IF row.ncols >= 5
             THEN IF views = <<>> THEN Raise("ValueError")
                  ELSE Ok(<<[number |-> row.number,
                             article_id |-> article_id,
                             title |-> row.title,
                             author |-> notice_author(row.bottom),
                             date |-> "2024.03.04",
                             views |-> IntOf(views),
                             url |-> detail_url]>>)
             ELSE Ok(<<>>)

\* except Exception: continue
RECURSIVE notice_rows_loop(_)
notice_rows_loop(rows) ==
    IF rows = <<>> THEN <<>>
    ELSE LET r == notice_row(Head(rows))
         IN  (IF r.exc # NoExc THEN <<>> ELSE r.val) \o notice_rows_loop(Tail(rows))

\* notices.reverse(), mutated to leave the list as it is.
notices_in_order(notices) == notices

notices_reversed(notices) == Reverse(notices)

parse_notice_list_body(doc) ==
    LET soup == Soup(doc)
    IN  IF soup.exc # NoExc THEN soup
        ELSE IF doc.rows = <<>> THEN Ok(<<>>)
        ELSE Ok(notices_reversed(notice_rows_loop(doc.rows)))

parse_notice_list(doc) == Catch(parse_notice_list_body(doc), <<>>)

(***************************************************************************)
(* parse_material_list.  A row is a tr whose style contains                 *)
(* "cursor: pointer": classes: its class list; left, onclick: as above;     *)
(* icon: it holds an img.download_icon.                                     *)
(***************************************************************************)
material_row(row) ==
    IF row.classes \cap {"gongji", "notitop"} # {} THEN Ok(<<>>)
    ELSE IF ~row.left THEN Ok(<<>>)
    ELSE LET onclick == row.onclick
             url_match == IF onclick # NoOnclick THEN PageMoveEvent(onclick) ELSE NoMatch
             detail_url == IF url_match.matched
                           THEN IF StartsWithHttp(url_match.group[1])
                                THEN url_match.group
                                ELSE <<BasePart>> \o url_match.group
                           ELSE <<>>
             artl_match == ParamDigits(detail_url, "ARTL_NUM")
             article_id == IF artl_match.matched THEN artl_match.group ELSE None
         IN  IF article_id = None \/ detail_url = <<>> THEN Ok(<<>>)
             ELSE Ok(<<[article_id |-> article_id,
                        title |-> row.title,
                        author |-> "author",
                        date |-> "2024.03.04",
                        url |-> detail_url,
                        has_attachment |-> row.icon]>>)

RECURSIVE material_rows_loop(_)
material_rows_loop(rows) ==
    IF rows = <<>> THEN <<>>
    ELSE LET r == material_row(Head(rows))
         IN  (IF r.exc # NoExc THEN <<>> ELSE r.val) \o material_rows_loop(Tail(rows))

parse_material_list_body(doc) ==
    LET soup == Soup(doc)
    IN  IF soup.exc # NoExc THEN soup
        ELSE IF doc.rows = <<>> THEN Ok(<<>>)
        ELSE Ok(material_rows_loop(doc.rows))

parse_material_list(doc) == Catch(parse_material_list_body(doc), <<>>)

(***************************************************************************)
(* parse_assignment_list, _extract_url_from_onclick, _extract_article_id.   *)
(* table: the page has a table.table_topic; rows: its tr elements, the      *)
(* header row first; onclick: the attribute of the tr itself.               *)
(***************************************************************************)
_extract_url_from_onclick(onclick_value) ==
    LET match == PageMoveClosed(onclick_value)
    IN  IF match.matched THEN <<BasePart>> \o match.group ELSE <<>>

_extract_article_id(url) ==
    IF url = <<>> THEN None
    ELSE IF ParamDigits(url, "ARTL_NUM").matched THEN ParamDigits(url, "ARTL_NUM").group
    ELSE IF ParamDigits(url, "NORCT_NUM").matched THEN ParamDigits(url, "NORCT_NUM").group
    ELSE None

assignment_row(row) ==
    IF row.ncols < 7 THEN <<>>
    ELSE LET detail_url == _extract_url_from_onclick(row.onclick)
         IN  <<[assignment_id |-> _extract_article_id(detail_url),
                title |-> row.title,
                start_date |-> "2024.03.04",
                end_date |-> "2024.03.11",
                status |-> "open",
                url |-> detail_url]>>

RECURSIVE assignment_rows_loop(_)
assignment_rows_loop(rows) ==
    IF rows = <<>> THEN <<>>
    ELSE assignment_row(Head(rows)) \o assignment_rows_loop(Tail(rows))

parse_assignment_list_body(doc) ==
    LET soup == Soup(doc)
    IN  IF soup.exc # NoExc THEN soup
        ELSE IF ~doc.table THEN Ok(<<>>)
        ELSE IF doc.rows = <<>> THEN Ok(<<>>)
        ELSE Ok(assignment_rows_loop(Tail(doc.rows)))

parse_assignment_list(doc) == Catch(parse_assignment_list_body(doc), <<>>)

(***************************************************************************)
(* Inputs of the list parsers.                                              *)
(***************************************************************************)
\* What follows ARTL_NUM= up to the next '&' or the end of the URL.
ParamValues == {<<"7">>, <<"1", "2", "3">>, <<"4", "x">>, <<"x">>, <<>>}

UrlParts ==
    {[text |-> t, ARTL_NUM |-> a, NORCT_NUM |-> n] :
        t \in {RelText, AbsText},
        a \in ParamValues \cup {Absent},
        n \in {Absent, <<"9">>, <<"x">>}}

Onclicks ==
    {NoOnclick}
    \cup {[call |-> "viewDetail", quote |-> "'", tail |-> ")", url |-> u] :
            u \in {x \in UrlParts : x.ARTL_NUM = <<"7">> /\ x.NORCT_NUM = Absent}}
    \cup {[call |-> "pageMove", quote |-> q, tail |-> t, url |-> u] :
            q \in {"'", "\""}, t \in {")", ", event)"}, u \in UrlParts}

\* A well-formed onclick: pageMove('<relative url with ARTL_NUM=7>')
GoodOnclick ==
    [call |-> "pageMove", quote |-> "'", tail |-> ")",
     url |-> [text |-> RelText, ARTL_NUM |-> <<"7">>, NORCT_NUM |-> Absent]]

Bottoms ==
    {[div |-> FALSE, spans |-> <<>>],
     [div |-> TRUE, spans |-> <<>>],
     [div |-> TRUE, spans |-> <<<<"k", "i", "m">>>>],
     [div |-> TRUE, spans |-> <<<<"k", "i", "m">>, <<"v", " ", "1", "2">>>>],
     [div |-> TRUE, spans |-> <<<<"k", "i", "m">>, <<"v">>>>]}

GoodBottom == [div |-> TRUE, spans |-> <<<<"k", "i", "m">>, <<"v", " ", "1", "2">>>>]

NoticeRowsAll ==
    {[left |-> l, onclick |-> o, ncols |-> n, bottom |-> b, number |-> "1", title |-> "1"] :
        l \in BOOLEAN, o \in Onclicks, n \in {4, 5}, b \in Bottoms}

GoodNoticeRow ==
    [left |-> TRUE, onclick |-> GoodOnclick, ncols |-> 5, bottom |-> GoodBottom,
     number |-> "1", title |-> "1"]

\* The rows of the pages with several rows: a well-formed row and its defects.
NoticeRowShapes ==
    {GoodNoticeRow,
     [GoodNoticeRow EXCEPT !.left = FALSE],
     [GoodNoticeRow EXCEPT !.onclick = NoOnclick],
     [GoodNoticeRow EXCEPT !.ncols = 4],
     [GoodNoticeRow EXCEPT !.bottom = [div |-> FALSE, spans |-> <<>>]]}

\* Rows numbered and titled by their place in the page.
RECURSIVE NumberedFrom(_, _)
NumberedFrom(rows, i) ==
    IF rows = <<>> THEN <<>>
    ELSE <<[Head(rows) EXCEPT !.number = ToString(i), !.title = ToString(i)]>>
         \o NumberedFrom(Tail(rows), i + 1)

Numbered(rows) == NumberedFrom(rows, 1)

NoticeListDocs ==
    {[valid |-> FALSE, rows |-> <<>>]}
    \cup {[valid |-> TRUE, rows |-> <<r>>] : r \in NoticeRowsAll}
    \cup {[valid |-> TRUE, rows |-> Numbered(s)] : s \in SeqsUpTo(NoticeRowShapes, MaxRows)}

MaterialRowsAll ==
    {[classes |-> c, left |-> l, onclick |-> o, icon |-> i, number |-> "1", title |-> "1"] :
        c \in {{}, {"gongji"}, {"notitop", "odd"}}, l \in BOOLEAN, o \in Onclicks,
        i \in BOOLEAN}

GoodMaterialRow ==
    [classes |-> {}, left |-> TRUE, onclick |-> GoodOnclick, icon |-> TRUE,
     number |-> "1", title |-> "1"]

MaterialRowShapes ==
    {GoodMaterialRow,
     [GoodMaterialRow EXCEPT !.classes = {"gongji"}],
     [GoodMaterialRow EXCEPT !.left = FALSE],
     [GoodMaterialRow EXCEPT !.onclick = NoOnclick],
     [GoodMaterialRow EXCEPT !.onclick.tail = ", event)"]}

MaterialListDocs ==
    {[valid |-> FALSE, rows |-> <<>>]}
    \cup {[valid |-> TRUE, rows |-> <<r>>] : r \in MaterialRowsAll}
    \cup {[valid |-> TRUE, rows |-> Numbered(s)] : s \in SeqsUpTo(MaterialRowShapes, MaxRows)}

AssignmentRowsAll ==
    {[ncols |-> n, onclick |-> o, number |-> "1", title |-> "1"] :
        n \in {6, 7}, o \in Onclicks}

GoodAssignmentRow == [ncols |-> 7, onclick |-> GoodOnclick, number |-> "1", title |-> "1"]

\* The header row of the assignment table: th cells only, no onclick.
AssignmentHeaderRow == [ncols |-> 0, onclick |-> NoOnclick, number |-> "0", title |-> "0"]

AssignmentRowShapes ==
    {GoodAssignmentRow,
     [GoodAssignmentRow EXCEPT !.ncols = 6],
     [GoodAssignmentRow EXCEPT !.onclick = NoOnclick],
     [GoodAssignmentRow EXCEPT !.onclick.url.ARTL_NUM = Absent,
                               !.onclick.url.NORCT_NUM = <<"9">>]}

AssignmentListDocs ==
    {[valid |-> FALSE, table |-> FALSE, rows |-> <<>>],
     [valid |-> TRUE, table |-> FALSE, rows |-> <<>>],
     [valid |-> TRUE, table |-> TRUE, rows |-> <<>>]}
    \cup {[valid |-> TRUE, table |-> TRUE, rows |-> <<AssignmentHeaderRow, r>>] :
            r \in AssignmentRowsAll}
    \cup {[valid |-> TRUE, table |-> TRUE, rows |-> <<AssignmentHeaderRow>> \o Numbered(s)] :
            s \in SeqsUpTo(AssignmentRowShapes, MaxRows)}

(***************************************************************************)
(* parse_syllabus.  The page is the sequence of its bold section header     *)
(* divs, each with the table (if any) between it and the next header;       *)
(* find_next('table') of a header is the first table after it in the page.  *)
(* A header's title is the section it names: "basic_info" for               *)
(* [수업기본정보], "professor_info" for [담당교수정보], "lecture_plan" for   *)
(* [강의계획], "weekly_plan" for [주별강의계획], "other" for any other text.  *)
(* A table row is its th or td cells' stripped texts.                       *)
(***************************************************************************)
SectionKeys == {"basic_info", "professor_info", "lecture_plan", "weekly_plan"}

NoTable == [present |-> FALSE, rows |-> <<>>]

\* section.find_next('table')
RECURSIVE find_next_table(_, _)
find_next_table(sections, i) ==
    IF i > Len(sections) THEN NoTable
    ELSE IF sections[i].table.present THEN sections[i].table
    ELSE find_next_table(sections, i + 1)

RECURSIVE table_info_loop(_, _)
table_info_loop(rows, info_dict) ==
    IF rows = <<>> THEN info_dict
    ELSE LET cells == Head(rows).cells
         IN  table_info_loop(Tail(rows),
                IF Len(cells) >= 2 THEN Put(info_dict, cells[1], cells[2]) ELSE info_dict)

_extract_table_info(table, info_dict) == table_info_loop(table.rows, info_dict)

\* row.find_all('td'): a row of th cells has none.
TdCells(row) == IF row.th THEN <<>> ELSE row.cells

RECURSIVE weekly_loop(_, _, _)
weekly_loop(rows, seen_weeks, weekly_syllabus) ==
    IF rows = <<>> THEN weekly_syllabus
    ELSE LET cols == TdCells(Head(rows))
         IN  IF Len(cols) >= 3
             THEN IF ~(cols[1] # "" /\ cols[2] # "") \/ cols[1] \in seen_weeks
                  THEN weekly_loop(Tail(rows), seen_weeks, weekly_syllabus)
                  ELSE weekly_loop(Tail(rows), seen_weeks \cup {cols[1]},
                           Append(weekly_syllabus,
                                  [week |-> cols[1], content |-> cols[2], note |-> cols[3]]))
             ELSE weekly_loop(Tail(rows), seen_weeks, weekly_syllabus)

\* rows[1:] with a fresh seen_weeks set; the entries are appended to the list passed in.
_extract_weekly_syllabus(table, weekly_syllabus) ==
    weekly_loop(IF table.rows = <<>> THEN <<>> ELSE Tail(table.rows), {}, weekly_syllabus)

RECURSIVE sections_loop(_, _, _)
sections_loop(sections, i, syllabus_info) ==
    IF i > Len(sections) THEN syllabus_info
    ELSE LET section_key == sections[i].title
             table == find_next_table(sections, i)
         IN  IF section_key \in SectionKeys /\ table.present
             THEN IF section_key # "weekly_plan"
                  THEN sections_loop(sections, i + 1,
                           [syllabus_info EXCEPT
                               ![section_key] = _extract_table_info(table, @)])
                  ELSE sections_loop(sections, i + 1,
                           [syllabus_info EXCEPT
                               ![section_key] = _extract_weekly_syllabus(table, @)])
             ELSE sections_loop(sections, i + 1, syllabus_info)

_extract_syllabus_info(soup) ==
    sections_loop(soup.sections, 1,
        [basic_info |-> EmptyDict, professor_info |-> EmptyDict,
         lecture_plan |-> EmptyDict, weekly_plan |-> <<>>])

parse_syllabus_body(doc) ==
    LET soup == Soup(doc)
    IN  IF soup.exc # NoExc THEN soup ELSE Ok(_extract_syllabus_info(doc))

parse_syllabus(doc) == Catch(parse_syllabus_body(doc), EmptyDict)

(***************************************************************************)
(* Inputs of parse_syllabus.                                                *)
(***************************************************************************)
SyllabusHeaderRow == [th |-> TRUE, cells |-> <<"week", "content", "note">>]

SyllabusRows ==
    {[th |-> FALSE, cells |-> <<"1", "intro", "">>],
     [th |-> FALSE, cells |-> <<"1", "intro, part 2", "">>],
     [th |-> FALSE, cells |-> <<"2", "sorting", "quiz">>],
     [th |-> FALSE, cells |-> <<"", "sorting", "">>],
     [th |-> FALSE, cells |-> <<"3", "", "">>],
     [th |-> FALSE, cells |-> <<"credits", "3">>]}

SyllabusTables ==
    {NoTable, [present |-> TRUE, rows |-> <<>>]}
    \cup {[present |-> TRUE, rows |-> <<SyllabusHeaderRow>> \o s] :
            s \in SeqsUpTo(SyllabusRows, MaxWeekRows)}

\* The tables of the pages with several sections.
SyllabusTableShapes ==
    {NoTable,
     [present |-> TRUE, rows |-> <<SyllabusHeaderRow, [th |-> FALSE, cells |-> <<"1", "intro", "">>]>>],
     [present |-> TRUE, rows |-> <<SyllabusHeaderRow, [th |-> FALSE, cells |-> <<"2", "sorting", "quiz">>]>>],
     [present |-> TRUE, rows |-> <<SyllabusHeaderRow, [th |-> FALSE, cells |-> <<"credits", "3">>]>>]}

SyllabusDocs ==
    {[valid |-> FALSE, sections |-> <<>>]}
    \cup {[valid |-> TRUE, sections |-> <<[title |-> k, table |-> t]>>] :
            k \in SectionKeys \cup {"other"}, t \in SyllabusTables}
    \cup {[valid |-> TRUE, sections |-> s] :
            s \in SeqsUpTo({[title |-> k, table |-> t] :
                               k \in {"weekly_plan", "basic_info", "other"},
                               t \in SyllabusTableShapes},
                           MaxSections)}

(***************************************************************************)
(* _extract_attachments.  An anchor is: href (it has the attribute),        *)
(* target (the path of the href), http (the href starts with "http"),       *)
(* query (the href's parameters in order, each a name and the text up to    *)
(* the next '&').  Tokens (CONTENT_SEQ, FILE_SEQ values) are sequences of   *)
(* characters.                                                              *)
(***************************************************************************)
DownloadEndpoint == "efile_download.acl"

\* re.search(r'FILE_SEQ=([^&]+)', file_url): the first FILE_SEQ with a value.
RECURSIVE QueryValue(_, _)
QueryValue(query, name) ==
    IF query = <<>> THEN NoMatch
    ELSE IF Head(query).name = name /\ Head(query).value # <<>>
         THEN [matched |-> TRUE, group |-> Head(query).value]
         ELSE QueryValue(Tail(query), name)

\* The href as the attachment's url: prefixed with the base unless it starts with http.
AttachmentUrl(file_link) ==
    IF file_link.http THEN <<file_link>> ELSE <<BasePart, file_link>>

\* The loop over the anchors, mutated to end the scan at the first download
\* anchor without FILE_SEQ (break for continue).
RECURSIVE attachments_loop_break(_, _)
attachments_loop_break(anchors, content_seq) ==
    IF anchors = <<>> THEN <<>>
    ELSE LET file_link == Head(anchors)
             file_seq_match == QueryValue(file_link.query, "FILE_SEQ")
         IN  IF file_link.href /\ file_link.target = DownloadEndpoint
             THEN IF ~file_seq_match.matched
                  THEN <<>>
                  ELSE <<[name |-> file_link.name,
                          url |-> AttachmentUrl(file_link),
                          file_seq |-> file_seq_match.group,
                          content_seq |-> content_seq]>>
                       \o attachments_loop_break(Tail(anchors), content_seq)
             ELSE attachments_loop_break(Tail(anchors), content_seq)

RECURSIVE attachments_loop(_, _)
attachments_loop(anchors, content_seq) ==
    IF anchors = <<>> THEN <<>>
    ELSE LET file_link == Head(anchors)
             file_seq_match == QueryValue(file_link.query, "FILE_SEQ")
         IN  IF file_link.href /\ file_link.target = DownloadEndpoint
             THEN IF ~file_seq_match.matched
                  THEN attachments_loop(Tail(anchors), content_seq)
                  ELSE <<[name |-> file_link.name,
                          url |-> AttachmentUrl(file_link),
                          file_seq |-> file_seq_match.group,
                          content_seq |-> content_seq]>>
                       \o attachments_loop(Tail(anchors), content_seq)
             ELSE attachments_loop(Tail(anchors), content_seq)

\* html_content is the text of a page: [valid, anchors].
_extract_attachments(html_content, content_seq) ==
    LET soup == Soup(html_content)
    IN  IF soup.exc # NoExc THEN soup
        ELSE Ok(attachments_loop(html_content.anchors, content_seq))

(***************************************************************************)
(* Plain text of a viewer cell.  A body is the sequence of the cell's       *)
(* children: a text node [tag |-> "", text], a line break [tag |-> "br"],  *)
(* a paragraph [tag |-> "p", text].                                         *)
(***************************************************************************)
Newline == <<"\n">>

StripChars == {" ", "\n"}

\* The strings of the body in document order, after every br was replaced by
\* '\n' and a '\n' was inserted after every p.
RECURSIVE strings_with_newlines(_)
strings_with_newlines(body) ==
    IF body = <<>> THEN <<>>
    ELSE LET node == Head(body)
         IN  (CASE node.tag = "br" -> <<Newline>>
                [] node.tag = "p" -> <<node.text, Newline>>
                [] OTHER -> <<node.text>>)
             \o strings_with_newlines(Tail(body))

\* The strings of the body as parsed.
RECURSIVE strings_of(_)
strings_of(body) ==
    IF body = <<>> THEN <<>>
    ELSE (IF Head(body).tag = "br" THEN <<>> ELSE <<Head(body).text>>)
         \o strings_of(Tail(body))

\* get_text(strip=True): every string stripped, the empty ones dropped, joined by ''.
RECURSIVE get_text_strip(_)
get_text_strip(strings) ==
    IF strings = <<>> THEN <<>>
    ELSE Strip(Head(strings), StripChars) \o get_text_strip(Tail(strings))

(***************************************************************************)
(* parse_notice_detail.  url_seq: the text after the first "CONTENT_SEQ="   *)
(* of the page up to the next '&' (None: the page has none); hidden: the    *)
(* value of input[name="CONTENT_SEQ"] (None: no such input); viewer: "td"   *)
(* (a td.textviewer), "last_row" (none, but the last row of table.bbsview   *)
(* has a td), "no_td" (that row has no td or the table has no row), "none" (no  *)
(* table either); div: the cell holds a div with the body.                  *)
(***************************************************************************)
parse_notice_detail_body(doc) ==
    LET soup == Soup(doc)
        content_seq == IF doc.url_seq # None THEN doc.url_seq ELSE doc.hidden
        textviewer == doc.viewer \in {"td", "last_row"}
        content == IF doc.div THEN get_text_strip(strings_with_newlines(doc.body))
                   ELSE get_text_strip(strings_of(doc.body))
        attachments == _extract_attachments(doc, content_seq)
    IN  IF soup.exc # NoExc THEN soup
        ELSE IF ~textviewer THEN Ok(EmptyDict)
        ELSE IF attachments.exc # NoExc THEN attachments
        ELSE IF attachments.val # <<>>
             THEN Ok(Put(Put(EmptyDict, "content", content), "attachments", attachments.val))
             ELSE Ok(Put(EmptyDict, "content", content))

parse_notice_detail(doc) == Catch(parse_notice_detail_body(doc), EmptyDict)

(***************************************************************************)
(* parse_assignment_detail.  bbsview: the page has a table.bbsview;         *)
(* viewer: the table has a td.textviewer.  The call                         *)
(* self._extract_attachments(soup) passes one argument to a method of two:  *)
(* it raises TypeError.                                                     *)
(***************************************************************************)
_extract_attachments_soup(soup) == Raise("TypeError")

parse_assignment_detail_body(doc) ==
    LET soup == Soup(doc)
        detail == IF doc.viewer
                  THEN Put(EmptyDict, "content",
                           get_text_strip(strings_with_newlines(doc.body)))
                  ELSE EmptyDict
        attachments == _extract_attachments_soup(doc)
    IN  IF soup.exc # NoExc THEN soup
        ELSE IF ~doc.bbsview THEN Ok(EmptyDict)
        ELSE IF attachments.exc # NoExc THEN attachments
        ELSE IF attachments.val # <<>>
             THEN Ok(Put(detail, "attachments", attachments.val))
             ELSE Ok(detail)

parse_assignment_detail(doc) == Catch(parse_assignment_detail_body(doc), EmptyDict)

(***************************************************************************)
(* parse_material_detail.  scripts: the page's script elements, each with   *)
(* string (it has a single text child) and form: "none" (its text has no    *)
(* CONTENT_SEQ), "colon" (CONTENT_SEQ : "<token>"), "equals"                *)
(* (CONTENT_SEQ=<token>); hidden: the value of input[name="CONTENT_SEQ"];   *)
(* viewer: the page has a td.textviewer.  http_session is what its post     *)
(* does: "raises", "falsy" (returns None), "response" (returns a response   *)
(* whose text is the page http_session.text).  The result is [exc, val]     *)
(* with the requests posted.                                                *)
(***************************************************************************)
efile_list_url == "https://eclass.seoultech.ac.kr/ilos/co/efile_list.acl"

\* The loop over soup.find_all('script'): the first script the pattern
\* CONTENT_SEQ\s*:\s*["']([^"',]+) matches.
RECURSIVE script_content_seq(_)
script_content_seq(scripts) ==
    IF scripts = <<>> THEN None
    ELSE LET script == Head(scripts)
         IN  IF script.string /\ script.form # "none" /\ script.form = "colon"
             THEN script.token
             ELSE script_content_seq(Tail(scripts))

\* The form fields, mutated to send one fixed course key whatever the course.
material_form_data_fixed_ky(course_id, content_seq) ==
    [ky |-> "K1", pf_st_flag |-> "2", CONTENT_SEQ |-> content_seq, encoding |-> "utf-8"]

material_form_data(course_id, content_seq) ==
    [ky |-> course_id, pf_st_flag |-> "2", CONTENT_SEQ |-> content_seq, encoding |-> "utf-8"]

\* The body of the inner try block: the awaited post and what is made of its answer.
file_list_request(http_session, content_seq) ==
    IF http_session.post = "raises" THEN Raise("ClientError")
    ELSE IF http_session.post = "falsy" THEN Ok(<<>>)
    ELSE _extract_attachments(http_session.text, content_seq)

\* The inner try block without its except clause.
file_list_notry(http_session, content_seq) == file_list_request(http_session, content_seq)

\* try: ... except Exception: logger.error(...)
file_list_try(http_session, content_seq) ==
    Catch(file_list_request(http_session, content_seq), <<>>)

WithPosts(r, requests) == [exc |-> r.exc, val |-> r.val, posts |-> requests]

parse_material_detail_body(http_session, html_content, course_id) ==
    LET soup == Soup(html_content)
        content_seq == script_content_seq(html_content.scripts)
        parsed_data == IF html_content.viewer
                       THEN Put(Put(EmptyDict, "content",
                                    get_text_strip(strings_of(html_content.body))),
                                "content_html", html_content.body)
                       ELSE EmptyDict
        request == [url |-> efile_list_url,
                    data |-> material_form_data(course_id, content_seq)]
        file_info_list == file_list_try(http_session, content_seq)
    IN  IF soup.exc # NoExc THEN WithPosts(soup, <<>>)
        ELSE IF content_seq = None THEN WithPosts(Ok(parsed_data), <<>>)
        ELSE IF file_info_list.exc # NoExc THEN WithPosts(file_info_list, <<request>>)
        ELSE IF file_info_list.val # <<>>
             THEN WithPosts(Ok(Put(parsed_data, "attachments", file_info_list.val)),
                            <<request>>)
             ELSE WithPosts(Ok(parsed_data), <<request>>)

parse_material_detail(http_session, html_content, course_id) ==
    LET r == parse_material_detail_body(http_session, html_content, course_id)
    IN  WithPosts(Catch(r, EmptyDict), r.posts)

(***************************************************************************)
(* Inputs of the detail parsers.                                            *)
(***************************************************************************)
Token55 == <<"5", "5">>

Token77 == <<"7", "7">>

File9 == [name |-> "FILE_SEQ", value |-> <<"9">>]

File8 == [name |-> "FILE_SEQ", value |-> <<"8">>]

FileEmpty == [name |-> "FILE_SEQ", value |-> <<>>]

Content55 == [name |-> "CONTENT_SEQ", value |-> Token55]

Queries ==
    {<<>>, <<File9>>, <<File8, Content55>>, <<Content55, File9>>, <<FileEmpty>>,
     <<FileEmpty, File9>>}

NoHrefAnchor ==
    [href |-> FALSE, target |-> "", http |-> FALSE, query |-> <<>>, name |-> "a.pdf"]

AnchorsAll ==
    {NoHrefAnchor}
    \cup {[href |-> TRUE, target |-> t, http |-> h, query |-> q, name |-> "a.pdf"] :
            t \in {DownloadEndpoint, "efile_view.acl"}, h \in BOOLEAN, q \in Queries}

GoodAnchor ==
    [href |-> TRUE, target |-> DownloadEndpoint, http |-> FALSE, query |-> <<File9>>,
     name |-> "a.pdf"]

\* The anchors of the pages with several anchors.
AnchorShapes ==
    {GoodAnchor,
     [GoodAnchor EXCEPT !.query = <<File8, Content55>>, !.http = TRUE, !.name = "b.pdf"],
     [GoodAnchor EXCEPT !.query = <<>>],
     [GoodAnchor EXCEPT !.target = "efile_view.acl"],
     NoHrefAnchor}

AnchorLists ==
    {<<a>> : a \in AnchorsAll} \cup SeqsUpTo(AnchorShapes, MaxAnchors)

\* The text of a response: a page of anchors, or no text at all.
ResponseTexts ==
    {[valid |-> FALSE, anchors |-> <<>>]}
    \cup {[valid |-> TRUE, anchors |-> a] : a \in AnchorLists}

Sessions ==
    {[post |-> "raises", text |-> [valid |-> FALSE, anchors |-> <<>>]],
     [post |-> "falsy", text |-> [valid |-> FALSE, anchors |-> <<>>]]}
    \cup {[post |-> "response", text |-> t] : t \in ResponseTexts}

Bodies ==
    {<<>>,
     <<[tag |-> "", text |-> <<"a">>]>>,
     <<[tag |-> "", text |-> <<"a">>], [tag |-> "br", text |-> <<>>],
       [tag |-> "", text |-> <<"b">>]>>,
     <<[tag |-> "p", text |-> <<"a">>], [tag |-> "p", text |-> <<"b">>]>>,
     <<[tag |-> "", text |-> <<" ", "a", " ">>], [tag |-> "br", text |-> <<>>]>>,
     <<[tag |-> "p", text |-> <<"a", " ", "b">>], [tag |-> "", text |-> <<"\n", "c">>]>>}

ScriptLists ==
    LET plain == [string |-> TRUE, form |-> "none", token |-> <<>>]
        src == [string |-> FALSE, form |-> "none", token |-> <<>>]
        colon(t) == [string |-> TRUE, form |-> "colon", token |-> t]
        equals(t) == [string |-> TRUE, form |-> "equals", token |-> t]
    IN  {<<>>, <<plain>>, <<src>>, <<colon(Token55)>>, <<plain, colon(Token55)>>,
         <<colon(Token55), colon(Token77)>>, <<equals(Token55)>>,
         <<equals(Token55), colon(Token77)>>, <<src, plain, colon(Token77)>>}

CourseIds == {"K1", "K2"}

MaterialDetailDocs ==
    {[valid |-> FALSE, scripts |-> <<>>, hidden |-> None, viewer |-> FALSE, body |-> <<>>]}
    \cup {[valid |-> TRUE, scripts |-> sc, hidden |-> h, viewer |-> v,
           body |-> IF v THEN <<[tag |-> "", text |-> <<"a">>]>> ELSE <<>>] :
            sc \in ScriptLists, h \in {None, Token55}, v \in BOOLEAN}

NoticeAnchorLists ==
    {<<>>, <<GoodAnchor>>, <<[GoodAnchor EXCEPT !.query = <<>>]>>,
     <<[GoodAnchor EXCEPT !.query = <<>>], GoodAnchor>>}

NoticeDetailDocs ==
    {[valid |-> FALSE, url_seq |-> None, hidden |-> None, viewer |-> "none",
      div |-> FALSE, body |-> <<>>, anchors |-> <<>>]}
    \cup {[valid |-> TRUE, url_seq |-> u, hidden |-> h, viewer |-> v, div |-> d,
           body |-> b, anchors |-> a] :
            u \in {None, Token55}, h \in {None, Token77},
            v \in {"td", "last_row", "no_td", "none"}, d \in BOOLEAN,
            b \in Bodies, a \in NoticeAnchorLists}

AssignmentDetailDocs ==
    {[valid |-> FALSE, bbsview |-> FALSE, viewer |-> FALSE, body |-> <<>>, anchors |-> <<>>]}
    \cup {[valid |-> TRUE, bbsview |-> t, viewer |-> v, body |-> b, anchors |-> a] :
            t \in BOOLEAN, v \in BOOLEAN, b \in Bodies, a \in NoticeAnchorLists}

(***************************************************************************)
(* The notices table and NoticeRepository.  A row is its course_id and      *)
(* article_id (the id is the row's place in the table; the other columns    *)
(* play no part in a query).  The table has a primary key on id and no      *)
(* unique constraint on (course_id, article_id); article_id is not null.    *)
(***************************************************************************)
MaxNotices == 3     \* rows of the notices table

ArticleIds == {<<"7">>, <<"1", "2", "3">>}

NoticeRows == {[course_id |-> c, article_id |-> a] : c \in CourseIds, a \in ArticleIds}

\* select(Notice).filter(course_id == ..., article_id == ...): the rows found.
select_notices(db, course_id, article_id) ==
    SelectSeq(db, LAMBDA row : row.course_id = course_id /\ row.article_id = article_id)

\* Result.scalar_one_or_none(): the one row (in a list), none (the empty
\* list), or MultipleResultsFound when the query found several rows.
scalar_one_or_none(result) ==
    IF Len(result) > 1 THEN Raise("MultipleResultsFound")
    ELSE IF Len(result) = 1 THEN Ok(<<result[1]>>)
    ELSE Ok(<<>>)

\* NoticeRepository.exists: scalar_one_or_none() is not None
exists(db, course_id, article_id) ==
    LET r == scalar_one_or_none(select_notices(db, course_id, article_id))
    IN  [exc |-> r.exc, val |-> r.exc = NoExc /\ r.val # <<>>]

NoAnswer == [exc |-> NoExc, val |-> FALSE]

NoResponse == [status |-> 0, calls |-> <<>>]

(***************************************************************************)
(* A crawl of the notices of one course: the orchestrator (EclassService)   *)
(* over the portal session (EclassSession), with parse_notice_list and      *)
(* NoticeRepository.exists.  The steps are those of the design: fetch the   *)
(* list page, extract the entries, drop the entries the existence check     *)
(* knows, fetch the detail page of each new entry, emit the batch, which    *)
(* the persistence side stores.  A request the portal answers with its      *)
(* session-expired redirect is followed by one login and one retry.         *)
(***************************************************************************)
MaxCrawlRows == 2   \* rows of the list page of a crawl

MaxRuns == 2        \* crawl runs over one portal state

\* The requests of one run: 0 the list page, i the detail page of the i-th new entry.
Requests == 0..MaxCrawlRows

\* Rows of the crawled list page, each with its own URL.
CrawlRows ==
    {GoodNoticeRow,
     [GoodNoticeRow EXCEPT !.onclick.url.ARTL_NUM = <<"1", "2", "3">>],
     [GoodNoticeRow EXCEPT !.onclick.url.ARTL_NUM = Absent, !.onclick.url.NORCT_NUM = <<"9">>],
     [GoodNoticeRow EXCEPT !.onclick = NoOnclick]}

\* The list pages: rows that differ from each other.
CrawlPages ==
    {page \in SeqsUpTo(CrawlRows, MaxCrawlRows) :
        \A i, j \in 1..Len(page) : i # j => page[i] # page[j]}

\* Step 2: the entries of the fetched list page.
list_entries(page) == parse_notice_list([valid |-> TRUE, rows |-> Numbered(page)]).val

\* Step 3: the entries the existence check does not know, or its exception.
RECURSIVE new_entries(_, _, _)
new_entries(db, course_id, entries) ==
    IF entries = <<>> THEN Ok(<<>>)
    ELSE LET known == exists(db, course_id, Head(entries).article_id)
             rest == new_entries(db, course_id, Tail(entries))
         IN  IF known.exc # NoExc THEN Raise(known.exc)
             ELSE IF rest.exc # NoExc THEN rest
             ELSE Ok((IF known.val THEN <<>> ELSE <<Head(entries)>>) \o rest.val)

\* Step 4: the detail record of an entry; an entry without URL has no page
\* to fetch, the failure is isolated and the entry left out of the batch.
detail_records(entry) == IF entry.url = <<>> THEN <<>> ELSE <<entry>>

\* A request met the session-expired redirect, mutated to log in again at every expiry.
on_expired_loop(attempts) == "relogin"

\* A request met the session-expired redirect: the first attempt is followed
\* by a login and a retry, the second is a crawl failure.
on_expired(attempts) == IF attempts < 2 THEN "relogin" ELSE "failed"

\* The rows the persistence side inserts for a batch: article_id is NOT NULL.
RECURSIVE stored_rows(_, _)
stored_rows(course_id, batch) ==
    IF batch = <<>> THEN <<>>
    ELSE (IF Head(batch).article_id = None THEN <<>>
          ELSE <<[course_id |-> course_id, article_id |-> Head(batch).article_id]>>)
         \o stored_rows(course_id, Tail(batch))

NoCrawl ==
    [pc |-> "off", run |-> 0, prev |-> "off", course_id |-> "K1", page |-> <<>>,
     at |-> "list", i |-> 0, new |-> <<>>, batch |-> <<>>, logins |-> 0,
     fetches |-> [r \in Requests |-> 0], expiries |-> [r \in Requests |-> 0]]

(***************************************************************************)
(* Two crawl runs over the same course, each on a session and a service of  *)
(* its own request, sharing the notices table.  A run takes the entries of  *)
(* the list page one at a time: it asks the existence check, and stores the *)
(* entry when the answer was false.  The runs give way to each other at     *)
(* every await, so between the check and the store of one run the other     *)
(* may take its steps.                                                      *)
(***************************************************************************)
RunIds == {1, 2}

\* The table after the insert of an entry: a new id, no uniqueness on
\* (course_id, article_id); a row without article_id is refused.
insert_notice(db, course_id, entry) == db \o stored_rows(course_id, <<entry>>)

\* What a run does with the answer of the existence check for its entry.
after_check(known) ==
    IF known.exc # NoExc THEN "failed" ELSE IF known.val THEN "check" ELSE "store"

NoRuns ==
    [page |-> <<>>, course_id |-> "K1", pc |-> [r \in RunIds |-> "off"],
     todo |-> [r \in RunIds |-> <<>>]]

(***************************************************************************)
(* The course endpoints (app/api/endpoints/courses.py).  A request is       *)
(* answered by one handler; what the e-Class service answers when called    *)
(* is the handler's input: is_logged_in and login give "true", "false" or   *)
(* "raises"; get_courses and crawl_all_courses raise or return, get_courses *)
(* the ids of the user's courses.  A handler's result                       *)
(* is the status of the response and the service calls made, in order;      *)
(* status 0 in a part of a handler: no response yet, the handler goes on.   *)
(* An exception no handler code catches is answered with status 500.        *)
(***************************************************************************)
HTTP_401_UNAUTHORIZED == 401

HTTP_404_NOT_FOUND == 404

ServiceAnswers == {"true", "false", "raises"}

\* try: login(...); if not login_success: raise 401 / except Exception: raise 401,
\* mutated to go on when login returned false.
login_or_401_unchecked(login) ==
    [status |-> IF login = "raises" THEN HTTP_401_UNAUTHORIZED ELSE 0, calls |-> <<"login">>]

\* try: login(...); if not login_success: raise 401 / except Exception: raise 401
login_or_401(login) ==
    [status |-> IF login = "true" THEN 0 ELSE HTTP_401_UNAUTHORIZED, calls |-> <<"login">>]

\* if not await eclass_service.is_logged_in(): <login or 401>
login_if_needed(logged_in, login) ==
    IF logged_in = "raises" THEN [status |-> 500, calls |-> <<"is_logged_in">>]
    ELSE IF logged_in = "true" THEN [status |-> 0, calls |-> <<"is_logged_in">>]
    ELSE [status |-> login_or_401(login).status,
          calls |-> <<"is_logged_in">> \o login_or_401(login).calls]

\* The handler goes on to the service operation after the login part.
then_call(before, operation, status) ==
    IF before.status # 0 THEN before
    ELSE [status |-> status, calls |-> Append(before.calls, operation)]

\* GET /
get_courses(login, courses) ==
    then_call(login_or_401(login), "get_courses",
              IF courses.raises THEN 500 ELSE 200)

\* GET /crawl
crawl_all_courses(logged_in, login, crawled) ==
    then_call(login_if_needed(logged_in, login), "crawl_all_courses",
              IF crawled.raises THEN 500 ELSE 200)

\* GET /{course_id}
get_course(course_id, logged_in, login, courses) ==
    then_call(login_if_needed(logged_in, login), "get_courses",
              IF courses.raises THEN 500
              ELSE IF course_id \in courses.ids THEN 200 ELSE HTTP_404_NOT_FOUND)

\* POST /refresh
refresh_courses(logged_in, login, courses) ==
    then_call(login_if_needed(logged_in, login), "get_courses",
              IF courses.raises THEN 500 ELSE 200)

\* What eclass_service.get_courses answers.
CourseAnswers ==
    {[raises |-> FALSE, ids |-> c] : c \in SUBSET CourseIds} \cup {[raises |-> TRUE, ids |-> {}]}

\* What eclass_service.crawl_all_courses answers.
CrawlAnswers == {[raises |-> b, ids |-> {}] : b \in BOOLEAN}

(***************************************************************************)
(* The caller: one method call at a time.                                   *)
(***************************************************************************)
Init ==
    /\ phase = "idle"
    /\ op = "none"
    /\ arg = <<>>
    /\ ret = [exc |-> NoExc, list |-> <<>>, map |-> EmptyDict]
    /\ posts = <<>>
    /\ table_notices = <<>>
    /\ answer = NoAnswer
    /\ response = NoResponse
    /\ crawl = NoCrawl
    /\ runs = NoRuns

\* A call of a method that returns a list.
CallList(name, a, r) ==
    /\ phase' = "returned"
    /\ op' = name
    /\ arg' = a
    /\ ret' = [exc |-> r.exc, list |-> r.val, map |-> EmptyDict]

\* A call of a method that returns a dict.
CallMap(name, a, r) ==
    /\ phase' = "returned"
    /\ op' = name
    /\ arg' = a
    /\ ret' = [exc |-> r.exc, list |-> <<>>, map |-> r.val]

ParseCourses ==
    /\ phase = "idle"
    /\ UNCHANGED others
    /\ \E doc \in CourseDocs :
           /\ CallList("parse_courses", doc, parse_courses(doc))
           /\ posts' = <<>>

\* The caller takes the result; the parser keeps nothing between calls.
Resume ==
    /\ phase = "returned"
    /\ phase' = "idle"
    /\ op' = "none"
    /\ arg' = <<>>
    /\ ret' = [exc |-> NoExc, list |-> <<>>, map |-> EmptyDict]
    /\ posts' = <<>>
    /\ answer' = NoAnswer
    /\ response' = NoResponse
    /\ UNCHANGED <<table_notices, crawl, runs>>

ParseCourseMenus ==
    /\ phase = "idle"
    /\ UNCHANGED others
    /\ \E doc \in MenuDocs :
           /\ CallMap("parse_course_menus", doc, parse_course_menus(doc))
           /\ posts' = <<>>

ParseNoticeList ==
    /\ phase = "idle"
    /\ UNCHANGED others
    /\ \E doc \in NoticeListDocs :
           /\ CallList("parse_notice_list", doc, parse_notice_list(doc))
           /\ posts' = <<>>

ParseMaterialList ==
    /\ phase = "idle"
    /\ UNCHANGED others
    /\ \E doc \in MaterialListDocs :
           /\ CallList("parse_material_list", doc, parse_material_list(doc))
           /\ posts' = <<>>

ParseAssignmentList ==
    /\ phase = "idle"
    /\ UNCHANGED others
    /\ \E doc \in AssignmentListDocs :
           /\ CallList("parse_assignment_list", doc, parse_assignment_list(doc))
           /\ posts' = <<>>

ParseSyllabus ==
    /\ phase = "idle"
    /\ UNCHANGED others
    /\ \E doc \in SyllabusDocs :
           /\ CallMap("parse_syllabus", doc, parse_syllabus(doc))
           /\ posts' = <<>>

ParseNoticeDetail ==
    /\ phase = "idle"
    /\ UNCHANGED others
    /\ \E doc \in NoticeDetailDocs :
           /\ CallMap("parse_notice_detail", doc, parse_notice_detail(doc))
           /\ posts' = <<>>

ParseAssignmentDetail ==
    /\ phase = "idle"
    /\ UNCHANGED others
    /\ \E doc \in AssignmentDetailDocs :
           /\ CallMap("parse_assignment_detail", doc, parse_assignment_detail(doc))
           /\ posts' = <<>>

ParseMaterialDetail ==
    /\ phase = "idle"
    /\ UNCHANGED others
    /\ \E http_session \in Sessions, doc \in MaterialDetailDocs, course_id \in CourseIds :
           LET r == parse_material_detail(http_session, doc, course_id)
           IN  /\ CallMap("parse_material_detail",
                          [http_session |-> http_session, html_content |-> doc,
                           course_id |-> course_id],
                          r)
               /\ posts' = r.posts

Next ==
    \/ ParseNoticeDetail
    \/ ParseAssignmentDetail
    \/ ParseMaterialDetail
    \/ ParseSyllabus
    \/ ParseCourses
    \/ ParseCourseMenus
    \/ ParseNoticeList
    \/ ParseMaterialList
    \/ ParseAssignmentList
    \/ Resume

Spec == Init /\ [][Next]_vars

(***************************************************************************)
(* The notices table under inserts and existence checks.                    *)
(***************************************************************************)
\* A row is added: the table takes every row with a course and an article id.
InsertNotice ==
    /\ phase = "idle"
    /\ Len(table_notices) < MaxNotices
    /\ \E row \in NoticeRows : table_notices' = Append(table_notices, row)
    /\ UNCHANGED <<phase, op, arg, ret, posts, answer, response, crawl, runs>>

\* await notice_repository.exists(db, course_id, article_id)
Exists ==
    /\ phase = "idle"
    /\ \E course_id \in CourseIds, article_id \in ArticleIds :
           /\ arg' = [course_id |-> course_id, article_id |-> article_id]
           /\ answer' = exists(table_notices, course_id, article_id)
    /\ phase' = "returned"
    /\ op' = "exists"
    /\ UNCHANGED <<ret, posts, table_notices, response, crawl, runs>>

StoreNext ==
    \/ InsertNotice
    \/ Exists
    \/ Resume

StoreSpec == Init /\ [][StoreNext]_vars

(***************************************************************************)
(* The course endpoints under requests.                                     *)
(***************************************************************************)
\* A request was answered by the named handler.
Answer(name, a, r) ==
    /\ phase' = "returned"
    /\ op' = name
    /\ arg' = a
    /\ response' = r
    /\ UNCHANGED <<ret, posts, table_notices, answer, crawl, runs>>

GetCourses ==
    /\ phase = "idle"
    /\ \E login \in ServiceAnswers, courses \in CourseAnswers :
           Answer("get_courses",
                  [course_id |-> "", logged_in |-> "not asked", login |-> login,
                   operation |-> courses],
                  get_courses(login, courses))

CrawlAllCourses ==
    /\ phase = "idle"
    /\ \E logged_in \in ServiceAnswers, login \in ServiceAnswers, crawled \in CrawlAnswers :
           Answer("crawl_all_courses",
                  [course_id |-> "", logged_in |-> logged_in, login |-> login,
                   operation |-> crawled],
                  crawl_all_courses(logged_in, login, crawled))

GetCourse ==
    /\ phase = "idle"
    /\ \E course_id \in CourseIds, logged_in \in ServiceAnswers, login \in ServiceAnswers,
          courses \in CourseAnswers :
           Answer("get_course",
                  [course_id |-> course_id, logged_in |-> logged_in, login |-> login,
                   operation |-> courses],
                  get_course(course_id, logged_in, login, courses))

RefreshCourses ==
    /\ phase = "idle"
    /\ \E logged_in \in ServiceAnswers, login \in ServiceAnswers, courses \in CourseAnswers :
           Answer("refresh_courses",
                  [course_id |-> "", logged_in |-> logged_in, login |-> login,
                   operation |-> courses],
                  refresh_courses(logged_in, login, courses))

EndpointNext ==
    \/ GetCourses
    \/ CrawlAllCourses
    \/ GetCourse
    \/ RefreshCourses
    \/ Resume

EndpointSpec == Init /\ [][EndpointNext]_vars

(***************************************************************************)
(* Crawl runs of one course over one portal state.                          *)
(***************************************************************************)
CrawlStep(c) ==
    /\ crawl' = c
    /\ UNCHANGED <<phase, op, arg, ret, posts, answer, response, runs>>

\* GET /crawl: is_logged_in is false for the session of the request, login
\* succeeds, crawl_all_courses starts.  The first run fixes the portal state.
StartCrawl ==
    /\ crawl.pc \in {"off", "done", "failed"}
    /\ crawl.run < MaxRuns
    /\ \E page \in (IF crawl.run = 0 THEN CrawlPages ELSE {crawl.page}) :
           CrawlStep([NoCrawl EXCEPT !.pc = "list", !.run = crawl.run + 1,
                                     !.prev = crawl.pc, !.page = page, !.logins = 1])
    /\ UNCHANGED table_notices

\* The run after this request was sent.
Sent(r) == [crawl EXCEPT !.fetches[r] = @ + 1]

\* The run after this request was sent and met the session-expired redirect.
Expired(r) == [Sent(r) EXCEPT !.expiries[r] = @ + 1, !.pc = on_expired(Sent(r).fetches[r])]

FetchList ==
    /\ crawl.pc = "list"
    /\ \E expired \in BOOLEAN :
           CrawlStep(IF expired THEN Expired(0) ELSE [Sent(0) EXCEPT !.pc = "filter"])
    /\ UNCHANGED table_notices

Relogin ==
    /\ crawl.pc = "relogin"
    /\ \E login \in BOOLEAN :
           CrawlStep([crawl EXCEPT !.logins = @ + 1,
                                   !.pc = IF login THEN crawl.at ELSE "failed"])
    /\ UNCHANGED table_notices

Filter ==
    /\ crawl.pc = "filter"
    /\ LET new == new_entries(table_notices, crawl.course_id, list_entries(crawl.page))
       IN  CrawlStep(IF new.exc # NoExc THEN [crawl EXCEPT !.pc = "failed"]
                     ELSE [crawl EXCEPT !.pc = "detail", !.at = "detail", !.i = 1,
                                        !.new = new.val])
    /\ UNCHANGED table_notices

FetchDetail ==
    /\ crawl.pc = "detail"
    /\ crawl.i <= Len(crawl.new)
    /\ \E expired \in BOOLEAN :
           CrawlStep(IF expired THEN Expired(crawl.i)
                     ELSE [Sent(crawl.i) EXCEPT
                              !.i = @ + 1,
                              !.batch = @ \o detail_records(crawl.new[crawl.i])])
    /\ UNCHANGED table_notices

Emit ==
    /\ crawl.pc = "detail"
    /\ crawl.i > Len(crawl.new)
    /\ CrawlStep([crawl EXCEPT !.pc = "done"])
    /\ table_notices' = table_notices \o stored_rows(crawl.course_id, crawl.batch)

CrawlNext ==
    \/ StartCrawl
    \/ FetchList
    \/ Relogin
    \/ Filter
    \/ FetchDetail
    \/ Emit

CrawlSpec == Init /\ [][CrawlNext]_vars

(***************************************************************************)
(* Two interleaved crawl runs of one course.                                *)
(***************************************************************************)
RunStep(c) ==
    /\ runs' = c
    /\ UNCHANGED <<phase, op, arg, ret, posts, answer, response, crawl>>

\* GET /crawl: a run starts on the list page of the course; the page is
\* the same for both runs.
RunStart(r) ==
    /\ runs.pc[r] = "off"
    /\ \E page \in (IF \A q \in RunIds : runs.pc[q] = "off" THEN CrawlPages ELSE {runs.page}) :
           RunStep([runs EXCEPT !.page = page, !.pc[r] = "check",
                                !.todo[r] = list_entries(page)])
    /\ UNCHANGED table_notices

\* The run asks the existence check for its next entry.
RunCheck(r) ==
    /\ runs.pc[r] = "check"
    /\ runs.todo[r] # <<>>
    /\ LET known == exists(table_notices, runs.course_id, Head(runs.todo[r]).article_id)
       IN  RunStep([runs EXCEPT !.pc[r] = after_check(known),
                                !.todo[r] = IF known.exc = NoExc /\ known.val
                                            THEN Tail(@) ELSE @])
    /\ UNCHANGED table_notices

\* The run stores the entry the existence check did not know.
RunStore(r) ==
    /\ runs.pc[r] = "store"
    /\ table_notices' = insert_notice(table_notices, runs.course_id, Head(runs.todo[r]))
    /\ RunStep([runs EXCEPT !.pc[r] = "check", !.todo[r] = Tail(@)])

\* The run has gone through its entries.
RunEnd(r) ==
    /\ runs.pc[r] = "check"
    /\ runs.todo[r] = <<>>
    /\ RunStep([runs EXCEPT !.pc[r] = "done"])
    /\ UNCHANGED table_notices

RaceNext ==
    \/ \E r \in RunIds : RunStart(r)
    \/ \E r \in RunIds : RunCheck(r)
    \/ \E r \in RunIds : RunStore(r)
    \/ \E r \in RunIds : RunEnd(r)

RaceSpec == Init /\ [][RaceNext]_vars

(***************************************************************************)
(* Properties.                                                              *)
(***************************************************************************)
Returned(name) == phase = "returned" /\ op = name

ListParsers == {"parse_notice_list", "parse_material_list", "parse_assignment_list"}

\* The article id of a list entry.
EntryId(entry) ==
    IF op = "parse_assignment_list" THEN entry.assignment_id ELSE entry.article_id

\* The rows of the page that was parsed, without the assignment table's header row.
DataRows == IF op = "parse_assignment_list" /\ arg.rows # <<>> THEN Tail(arg.rows) ELSE arg.rows

\* The row has the cells and texts the parser reads besides its navigation attribute.
RowComplete(row) ==
    CASE op = "parse_notice_list" ->
            /\ row.left
            /\ row.ncols >= 5
            /\ row.bottom.div
            /\ Len(row.bottom.spans) > 1
            /\ \E i \in 1..Len(row.bottom.spans[Len(row.bottom.spans)]) :
                   row.bottom.spans[Len(row.bottom.spans)][i] \in Digits
      [] op = "parse_material_list" ->
            row.left /\ row.classes \cap {"gongji", "notitop"} = {}
      [] OTHER -> row.ncols >= 7

\* C1: every entry a list parser returns has a non-null, all-digit article id
\* and a non-empty URL, and no entry comes from a row without onclick attribute.
C1_EntriesHaveArticleId ==
    (phase = "returned" /\ op \in ListParsers) =>
        /\ ret.exc = NoExc
        /\ \A i \in 1..Len(ret.list) :
               /\ EntryId(ret.list[i]) # None
               /\ AllDigits(EntryId(ret.list[i]))
               /\ ret.list[i].url # <<>>
        /\ \A j \in 1..Len(DataRows) :
               DataRows[j].onclick = NoOnclick =>
                   \A i \in 1..Len(ret.list) : ret.list[i].title # DataRows[j].title

\* C2: every complete row whose onclick holds a pageMove call with
\* ARTL_NUM=<digits> in its URL gives an entry with exactly those digits as
\* article id, whatever the quote, the further arguments, the other parameters.
C2_ArticleIdAnyQuoting ==
    (phase = "returned" /\ op \in ListParsers) =>
        \A j \in 1..Len(DataRows) :
            LET row == DataRows[j]
            IN  (/\ RowComplete(row)
                 /\ row.onclick.call = "pageMove"
                 /\ row.onclick.url.ARTL_NUM # Absent
                 /\ AllDigits(row.onclick.url.ARTL_NUM))
                => \E i \in 1..Len(ret.list) :
                       /\ ret.list[i].title = row.title
                       /\ EntryId(ret.list[i]) = row.onclick.url.ARTL_NUM

IsList(v) == DOMAIN v = 1..Cardinality(DOMAIN v)

\* C3: every extraction method returns normally, with a list or a mapping,
\* whatever the document and whatever the session's post does.
C3_ExtractionTotal ==
    phase = "returned" =>
        /\ ret.exc = NoExc
        /\ IsList(ret.list)
        /\ op = "parse_course_menus" => DOMAIN ret.map \subseteq {menu_mapping[k] : k \in DOMAIN menu_mapping}
        /\ op = "parse_syllabus" => DOMAIN ret.map \in {{}, SectionKeys}
        /\ op \in {"parse_notice_detail", "parse_assignment_detail", "parse_material_detail"}
              => DOMAIN ret.map \subseteq {"content", "content_html", "attachments"}

\* A call absorbed an exception: the session's post raised in parse_material_detail.
C3_Witness ==
    /\ Returned("parse_material_detail")
    /\ arg.http_session.post = "raises"
    /\ posts # <<>>
    /\ ret.exc = NoExc

\* The tokens the page exposes in its inline scripts as CONTENT_SEQ : "<token>".
ScriptTokens(doc) ==
    {doc.scripts[i].token : i \in {k \in 1..Len(doc.scripts) :
                                      doc.scripts[k].string /\ doc.scripts[k].form = "colon"}}

\* The download anchors of a response text.
DownloadAnchors(text) ==
    {i \in 1..Len(text.anchors) :
        text.anchors[i].href /\ text.anchors[i].target = DownloadEndpoint}

\* The values of the FILE_SEQ parameters of an anchor.
FileSeqs(anchor) ==
    {anchor.query[k].value : k \in {j \in 1..Len(anchor.query) :
                                       anchor.query[j].name = "FILE_SEQ"}}

\* The tokens the page exposes: in an inline script as CONTENT_SEQ : "<token>",
\* or as the value of a hidden form field named CONTENT_SEQ.
ExposedTokens(doc) ==
    ScriptTokens(doc) \cup (IF doc.hidden # None THEN {doc.hidden} ELSE {})

\* C4: a page exposing one token t and an answered follow-up with exactly one
\* download anchor, of FILE_SEQ f, give exactly one attachment with
\* content_seq t and file_seq f; every attachment carries a token of its page.
C4_AttachmentRoundTrip ==
    Returned("parse_material_detail") =>
        LET doc == arg.html_content
            text == arg.http_session.text
        IN  /\ "attachments" \in DOMAIN ret.map =>
                   \A i \in 1..Len(ret.map.attachments) :
                       ret.map.attachments[i].content_seq \in ExposedTokens(doc)
            /\ (/\ doc.valid
                /\ Cardinality(ExposedTokens(doc)) = 1
                /\ arg.http_session.post = "response"
                /\ text.valid
                /\ Cardinality(DownloadAnchors(text)) = 1
                /\ \A i \in DownloadAnchors(text) :
                       Cardinality(FileSeqs(text.anchors[i])) = 1
                       /\ <<>> \notin FileSeqs(text.anchors[i]))
               => /\ "attachments" \in DOMAIN ret.map
                  /\ Len(ret.map.attachments) = 1
                  /\ {ret.map.attachments[1].content_seq} = ExposedTokens(doc)
                  /\ \A i \in DownloadAnchors(text) :
                         {ret.map.attachments[1].file_seq} = FileSeqs(text.anchors[i])

\* An anchor the attachment scan resolves.
Resolvable(anchor) ==
    /\ anchor.href
    /\ anchor.target = DownloadEndpoint
    /\ \E v \in FileSeqs(anchor) : v # <<>>

\* C5: attachments are contributed only if the token was located and the
\* follow-up completed with a resolvable anchor; no request without token;
\* a failed or raising follow-up leaves the extracted body, without attachments.
C5_AttachmentPairAtomic ==
    Returned("parse_material_detail") =>
        LET doc == arg.html_content
            session == arg.http_session
        IN  /\ "attachments" \in DOMAIN ret.map =>
                   /\ ScriptTokens(doc) # {}
                   /\ Len(posts) = 1
                   /\ session.post = "response"
                   /\ session.text.valid
                   /\ \E i \in 1..Len(session.text.anchors) : Resolvable(session.text.anchors[i])
                   /\ ret.map.attachments # <<>>
            /\ ScriptTokens(doc) = {} => posts = <<>>
            /\ (doc.valid /\ session.post \in {"raises", "falsy"}) =>
                   /\ ret.exc = NoExc
                   /\ "attachments" \notin DOMAIN ret.map
                   /\ doc.viewer =>
                          /\ "content" \in DOMAIN ret.map
                          /\ ret.map.content = <<"a">>

\* The follow-up was posted and raised; the body is returned without attachments.
C5_Witness ==
    /\ Returned("parse_material_detail")
    /\ arg.http_session.post = "raises"
    /\ Len(posts) = 1
    /\ arg.html_content.viewer
    /\ DOMAIN ret.map = {"content", "content_html"}

\* The rows parse_notice_list accepts.
NoticeAccepted(rows) == SelectSeq(rows, RowComplete)

\* C6: the notices are the accepted rows in reverse document order.
C6_NoticesReversed ==
    Returned("parse_notice_list") =>
        LET accepted == NoticeAccepted(arg.rows)
            n == Len(accepted)
        IN  /\ Len(ret.list) = n
            /\ \A i \in 1..n : ret.list[i].number = accepted[n + 1 - i].number

\* Three accepted rows 1, 2, 3 are returned as 3, 2, 1.
C6_Witness ==
    /\ Returned("parse_notice_list")
    /\ Len(arg.rows) = 3
    /\ Len(ret.list) = 3
    /\ <<arg.rows[1].number, arg.rows[2].number, arg.rows[3].number>> = <<"1", "2", "3">>
    /\ <<ret.list[1].number, ret.list[2].number, ret.list[3].number>> = <<"3", "2", "1">>

\* C7: no two weekly entries of one parse_syllabus result share a week label.
C7_WeeksUnique ==
    (Returned("parse_syllabus") /\ arg.valid) =>
        \A i, j \in 1..Len(ret.map.weekly_plan) :
            ret.map.weekly_plan[i].week = ret.map.weekly_plan[j].week => i = j

Count(s, c) == Cardinality({i \in 1..Len(s) : s[i] = c})

\* C8: the course text is split at its last '(': the name is what precedes it,
\* the code what follows it up to the closing ')'; without '(' the text is
\* the name and the code is empty.
C8_CourseNameSplit ==
    (Returned("parse_courses") /\ arg.valid /\ Len(arg.elements) = 1 /\ arg.elements[1].em) =>
        LET text == Strip(arg.elements[1].text, {" "})
            course == ret.list[1]
        IN  /\ ret.exc = NoExc
            /\ Len(ret.list) = 1
            /\ Count(text, "(") = 0 => course.name = text /\ course.code = <<>>
            /\ Count(text, "(") > 0 =>
                   \E i \in 1..Len(text) :
                       /\ text[i] = "("
                       /\ \A j \in (i + 1)..Len(text) : text[j] # "("
                       /\ course.name = Strip(SubSeq(text, 1, i - 1), {" "})
                       /\ Count(course.name, "(") = Count(text, "(") - 1
                       /\ Count(course.code, "(") = 0
                       /\ course.code = Strip(SubSeq(text, i + 1, Len(text)), {")", " "})
            /\ arg.elements[1].text = <<"A", " ", "(", "A", ")">> =>
                   course.name = <<"A">> /\ course.code = <<"A">>

\* A text with two '(' : only the last one starts the code.
C8_Witness ==
    /\ Returned("parse_courses")
    /\ Len(arg.elements) = 1
    /\ arg.elements[1].text = <<"A", "(", "A", "(", "A">>
    /\ Len(ret.list) = 1
    /\ ret.list[1].name = <<"A", "(", "A">>
    /\ ret.list[1].code = <<"A">>

MenuKeys ==
    {"plan", "online_lecture", "notice", "lecture_material", "attendance", "assignment",
     "team_project", "exam"}

KnownMenuIds ==
    {"st_plan", "st_onlineclass", "st_notice", "st_lecture_material", "st_attendance",
     "st_report", "st_teamproject", "st_exam"}

KnownItem(item) == item.id \in KnownMenuIds

\* C9: the menu map has keys of the closed set only; the items with an id
\* outside the eight known ones change nothing; a key is there only if an
\* item with its known id is in the page.
C9_MenuKeysClosed ==
    Returned("parse_course_menus") =>
        /\ ret.exc = NoExc
        /\ DOMAIN ret.map \subseteq MenuKeys
        /\ ret.map = parse_course_menus(
                         [arg EXCEPT !.items = SelectSeq(arg.items, KnownItem)]).val
        /\ \A id \in KnownMenuIds :
               (\A i \in 1..Len(arg.items) : arg.items[i].id # id)
                   => menu_mapping[id] \notin DOMAIN ret.map

\* An item with an unknown id and a link, next to a known one: one key.
C9_Witness ==
    /\ Returned("parse_course_menus")
    /\ Len(arg.items) = 2
    /\ arg.items[1].id = "st_other"
    /\ arg.items[1].link = "a"
    /\ arg.items[2].id = "st_notice"
    /\ DOMAIN ret.map = {"notice"}

\* C10: at most one request is posted per detail page, to the efile_list
\* endpoint, with exactly the fields ky (the course id passed in),
\* pf_st_flag "2", CONTENT_SEQ (the page's token) and encoding "utf-8".
C10_OnePostFixedForm ==
    Returned("parse_material_detail") =>
        /\ Len(posts) <= 1
        /\ \A i \in 1..Len(posts) :
               /\ posts[i].url = "https://eclass.seoultech.ac.kr/ilos/co/efile_list.acl"
               /\ DOMAIN posts[i].data = {"ky", "pf_st_flag", "CONTENT_SEQ", "encoding"}
               /\ posts[i].data.ky = arg.course_id
               /\ posts[i].data.pf_st_flag = "2"
               /\ posts[i].data.CONTENT_SEQ \in ScriptTokens(arg.html_content)
               /\ posts[i].data.encoding = "utf-8"

\* One request was posted for course K2 with the token 77.
C10_Witness ==
    /\ Returned("parse_material_detail")
    /\ Len(posts) = 1
    /\ arg.course_id = "K2"
    /\ posts[1].data.ky = "K2"
    /\ posts[1].data.CONTENT_SEQ = Token77

\* A menu item the parser can store: a known id and an anchor with href.
WellFormedItem(item) == KnownItem(item) /\ item.link = "a"

\* A navigation attribute every list parser reads: pageMove('<url with ARTL_NUM=digits>')
WellFormedOnclick(onclick) ==
    /\ onclick.call = "pageMove"
    /\ onclick.quote = "'"
    /\ onclick.tail = ")"
    /\ onclick.url.ARTL_NUM # Absent
    /\ AllDigits(onclick.url.ARTL_NUM)

\* C14: a malformed row, menu item or attachment anchor does not take away
\* the records of the well-formed rows, items and anchors of the same page.
C14_FailuresAbsorbed ==
    /\ (Returned("parse_course_menus") /\ arg.valid) =>
           \A i \in 1..Len(arg.items) :
               WellFormedItem(arg.items[i]) => menu_mapping[arg.items[i].id] \in DOMAIN ret.map
    /\ (phase = "returned" /\ op \in ListParsers /\ arg.valid) =>
           \A j \in 1..Len(DataRows) :
               (RowComplete(DataRows[j]) /\ WellFormedOnclick(DataRows[j].onclick))
                   => \E i \in 1..Len(ret.list) : ret.list[i].title = DataRows[j].title
    /\ (/\ Returned("parse_material_detail")
        /\ arg.html_content.valid
        /\ ScriptTokens(arg.html_content) # {}
        /\ arg.http_session.post = "response"
        /\ arg.http_session.text.valid) =>
           \A k \in 1..Len(arg.http_session.text.anchors) :
               Resolvable(arg.http_session.text.anchors[k]) =>
                   /\ "attachments" \in DOMAIN ret.map
                   /\ \E i \in 1..Len(ret.map.attachments) :
                          ret.map.attachments[i].file_seq
                              \in FileSeqs(arg.http_session.text.anchors[k])

\* C15: an assignment page with a textviewer cell in its bbsview table gives
\* a record with the cell's plain text as 'content', and with 'attachments'
\* when the page has download anchors that resolve.
C15_AssignmentDetailContent ==
    (Returned("parse_assignment_detail") /\ arg.valid /\ arg.bbsview /\ arg.viewer) =>
        /\ "content" \in DOMAIN ret.map
        /\ (\E k \in 1..Len(arg.anchors) : Resolvable(arg.anchors[k]))
               => "attachments" \in DOMAIN ret.map

\* The text of a node with the blanks and newlines at its ends removed.
Fragment(node) == IF node.tag = "br" THEN <<>> ELSE Strip(node.text, StripChars)

\* x, then one or more newlines, then y, somewhere in content.
Separated(content, x, y) ==
    \E i \in 1..Len(content) : \E j \in i..Len(content) :
        /\ \A k \in i..j : content[k] = "\n"
        /\ i > Len(x)
        /\ SubSeq(content, i - Len(x), i - 1) = x
        /\ j + Len(y) <= Len(content)
        /\ SubSeq(content, j + 1, j + Len(y)) = y

\* The pairs of neighbouring text fragments of a body that a br or the end of
\* a p lies between.
BrokenPairs(body) ==
    {<<i, j>> \in (1..Len(body)) \X (1..Len(body)) :
        /\ i < j
        /\ Fragment(body[i]) # <<>>
        /\ Fragment(body[j]) # <<>>
        /\ \A k \in (i + 1)..(j - 1) : Fragment(body[k]) = <<>>
        /\ \/ body[i].tag = "p"
           \/ \E k \in (i + 1)..(j - 1) : body[k].tag = "br"}

\* C16: in the 'content' of a notice or assignment detail, the texts on both
\* sides of a br or of the end of a p are separated by a newline.
C16_NewlinesKept ==
    /\ (/\ Returned("parse_notice_detail")
        /\ arg.valid
        /\ arg.viewer \in {"td", "last_row"}
        /\ arg.div) =>
           /\ "content" \in DOMAIN ret.map
           /\ \A pair \in BrokenPairs(arg.body) :
                  Separated(ret.map.content, Fragment(arg.body[pair[1]]),
                            Fragment(arg.body[pair[2]]))
    /\ (Returned("parse_assignment_detail") /\ arg.valid /\ arg.bbsview /\ arg.viewer) =>
           /\ "content" \in DOMAIN ret.map
           /\ \A pair \in BrokenPairs(arg.body) :
                  Separated(ret.map.content, Fragment(arg.body[pair[1]]),
                            Fragment(arg.body[pair[2]]))

\* C17: a material page holding the token in an inline script or in the
\* hidden field CONTENT_SEQ gets the follow-up request, posted with a token
\* of the page.
C17_TokenFromScriptOrField ==
    (Returned("parse_material_detail") /\ arg.html_content.valid
        /\ ExposedTokens(arg.html_content) # {}) =>
        /\ Len(posts) = 1
        /\ posts[1].data.CONTENT_SEQ \in ExposedTokens(arg.html_content)

\* C18: a complete row whose pageMove URL has NORCT_NUM=<digits> and no
\* ARTL_NUM gives an entry with those digits as article id, in every list parser.
C18_NorctNumAsId ==
    (phase = "returned" /\ op \in ListParsers /\ arg.valid) =>
        \A j \in 1..Len(DataRows) :
            LET row == DataRows[j]
            IN  (/\ RowComplete(row)
                 /\ row.onclick.call = "pageMove"
                 /\ row.onclick.quote = "'"
                 /\ row.onclick.tail = ")"
                 /\ row.onclick.url.ARTL_NUM = Absent
                 /\ row.onclick.url.NORCT_NUM # Absent
                 /\ AllDigits(row.onclick.url.NORCT_NUM))
                => \E i \in 1..Len(ret.list) :
                       /\ ret.list[i].title = row.title
                       /\ EntryId(ret.list[i]) = row.onclick.url.NORCT_NUM

\* The first non-empty FILE_SEQ value of an anchor's href.
FirstFileSeq(anchor) ==
    LET at == {k \in 1..Len(anchor.query) :
                  anchor.query[k].name = "FILE_SEQ" /\ anchor.query[k].value # <<>>}
    IN  anchor.query[CHOOSE k \in at : \A m \in at : k <= m].value

\* The anchors of a page that go to the download endpoint with a FILE_SEQ, in order.
ResolvableAnchors(anchors) == SelectSeq(anchors, Resolvable)

\* The attachments a call returned ('attachments' is left out when there is none).
Attachments == IF "attachments" \in DOMAIN ret.map THEN ret.map.attachments ELSE <<>>

\* C19: the attachments are the anchors to the download endpoint that have a
\* FILE_SEQ, one each and in document order, with that FILE_SEQ value, the
\* anchor's name and the token of the page; other anchors give nothing and
\* stop nothing.
C19_AttachmentsPerAnchor ==
    /\ (/\ Returned("parse_material_detail")
        /\ arg.html_content.valid
        /\ ScriptTokens(arg.html_content) # {}
        /\ arg.http_session.post = "response"
        /\ arg.http_session.text.valid) =>
           LET found == ResolvableAnchors(arg.http_session.text.anchors)
           IN  /\ Len(Attachments) = Len(found)
               /\ \A i \in 1..Len(found) :
                      /\ Attachments[i].file_seq = FirstFileSeq(found[i])
                      /\ Attachments[i].name = found[i].name
    /\ (Returned("parse_notice_detail") /\ arg.valid /\ arg.viewer \in {"td", "last_row"}) =>
           LET found == ResolvableAnchors(arg.anchors)
           IN  /\ Len(Attachments) = Len(found)
               /\ \A i \in 1..Len(found) :
                      Attachments[i].file_seq = FirstFileSeq(found[i])

\* An anchor without FILE_SEQ, then one with FILE_SEQ 9: one attachment, "9".
C19_Witness ==
    /\ Returned("parse_material_detail")
    /\ arg.http_session.post = "response"
    /\ Len(arg.http_session.text.anchors) = 2
    /\ arg.http_session.text.anchors[1].target = DownloadEndpoint
    /\ arg.http_session.text.anchors[1].query = <<>>
    /\ arg.http_session.text.anchors[2] = GoodAnchor
    /\ Len(Attachments) = 1
    /\ Attachments[1].file_seq = <<"9">>

\* C11: the existence check never raises and answers whether the table holds
\* at least one row with the course and article id asked for.
C11_ExistsTotal ==
    Returned("exists") =>
        /\ answer.exc = NoExc
        /\ answer.val = (\E i \in 1..Len(table_notices) :
                            /\ table_notices[i].course_id = arg.course_id
                            /\ table_notices[i].article_id = arg.article_id)

CourseEndpoints == {"get_courses", "crawl_all_courses", "get_course", "refresh_courses"}

\* How often a call is among the calls a handler made.
CallCount(calls, name) == Cardinality({i \in 1..Len(calls) : calls[i] = name})

\* The service operations of the endpoints.
OperationCalls(calls) ==
    CallCount(calls, "get_courses") + CallCount(calls, "crawl_all_courses")

\* C20: in every course endpoint a login that returns false or raises gives
\* 401, with one login attempt and no course operation; the operation is
\* called only after is_logged_in or login returned true.
C20_LoginFailureIs401 ==
    (phase = "returned" /\ op \in CourseEndpoints) =>
        /\ CallCount(response.calls, "login") <= 1
        /\ (CallCount(response.calls, "login") = 1 /\ arg.login \in {"false", "raises"}) =>
               /\ response.status = HTTP_401_UNAUTHORIZED
               /\ OperationCalls(response.calls) = 0
        /\ OperationCalls(response.calls) > 0 =>
               \/ CallCount(response.calls, "is_logged_in") = 1 /\ arg.logged_in = "true"
               \/ CallCount(response.calls, "login") = 1 /\ arg.login = "true"

\* GET /crawl: is_logged_in returned false, login raised: 401 after one
\* login attempt, crawl_all_courses not called.
C20_Witness ==
    /\ Returned("crawl_all_courses")
    /\ arg.logged_in = "false"
    /\ arg.login = "raises"
    /\ response.status = 401
    /\ response.calls = <<"is_logged_in", "login">>

\* C12: a second run over the same portal state, after a first run that
\* ended and whose batch was stored, ends with an empty batch.
C12_SecondRunEmpty ==
    (crawl.pc = "done" /\ crawl.run = 2 /\ crawl.prev = "done") => crawl.batch = <<>>

\* The requests of the run that met an expired session.
ExpiredRequests == {r \in Requests : crawl.expiries[r] >= 1}

\* C13: an expired request is followed by one login and, when that
\* succeeds, one retry of the same request; a second expiry of the same
\* request ends the run as failed; no request is sent a third time.
C13_OneReloginOneRetry ==
    crawl.pc # "off" =>
        /\ \A r \in Requests :
               /\ crawl.fetches[r] <= 2
               /\ crawl.expiries[r] <= crawl.fetches[r]
               /\ crawl.fetches[r] = 2 => crawl.expiries[r] >= 1
               /\ crawl.expiries[r] = 2 => crawl.pc = "failed"
               /\ (crawl.pc = "done" /\ crawl.expiries[r] = 1) => crawl.fetches[r] = 2
        /\ crawl.logins = 1 + Cardinality(ExpiredRequests)
                            - (IF crawl.pc = "relogin" THEN 1 ELSE 0)

\* A detail fetch met the expired session once: two logins, two fetches of
\* that page, and the run ended with its batch.
C13_Witness ==
    /\ crawl.pc = "done"
    /\ crawl.logins = 2
    /\ crawl.batch # <<>>
    /\ \E r \in Requests \ {0} : crawl.fetches[r] = 2 /\ crawl.expiries[r] = 1

\* The row is clickable, has five cells and a title cell whose onclick the
\* parser resolves to an ARTL_NUM.
ResolvableNoticeRow(row) ==
    /\ row.left
    /\ row.ncols >= 5
    /\ row.onclick # NoOnclick
    /\ PageMoveClosed(row.onclick).matched
    /\ ParamDigits(PageMoveClosed(row.onclick).group, "ARTL_NUM").matched

\* C21: every clickable row with five cells and a resolvable ARTL_NUM gives
\* an entry of parse_notice_list, with or without author and view-count block.
C21_RowKeptWithoutViews ==
    Returned("parse_notice_list") =>
        \A j \in 1..Len(arg.rows) :
            ResolvableNoticeRow(arg.rows[j]) =>
                \E i \in 1..Len(ret.list) : ret.list[i].number = arg.rows[j].number

\* C22: after two crawl runs over the same course, interleaved in any way,
\* the notices table holds at most one row for a (course_id, article_id).
C22_OneRowPerArticle ==
    (\A r \in RunIds : runs.pc[r] = "done") =>
        \A i, j \in 1..Len(table_notices) :
            (/\ table_notices[i].course_id = table_notices[j].course_id
             /\ table_notices[i].article_id = table_notices[j].article_id) => i = j

====
